---------------------------- MODULE Spec2Model ----------------------------
(***************************************************************************)
(* Model of the decision-tree engine generated by the macro                *)
(* classification_data_layout! (src/src/lib.rs).                           *)
(*                                                                         *)
(* The macro is modelled for two instantiations, chosen in Init:           *)
(*   enum_fields = {color: Color}, number_fields = {}                      *)
(*   enum_fields = {color: Color}, number_fields = {size: u32}             *)
(* with class = Fruit.  build_tree is a recursive function; its recursion  *)
(* is modelled by an explicit call stack, the loops of find_best_split by  *)
(* one action per iteration.  f32 arithmetic is modelled bit-exactly       *)
(* (IEEE-754 binary32, round to nearest, ties to even).                    *)
(***************************************************************************)
EXTENDS Integers, Sequences, FiniteSets, TLC

(***************************************************************************)
(* Bounds of the model.                                                    *)
(***************************************************************************)
\* longest training set drawn in Init
MaxRecords == 3
\* the number field takes the values 1..MaxSize
MaxSize == 2

(***************************************************************************)
(* f32: a value is m * 2^e with 2^23 <= |m| < 2^24, or m = 0 and e = 0.    *)
(***************************************************************************)
F32Zero == [m |-> 0, e |-> 0]

Abs(n) == IF n < 0 THEN -n ELSE n

Sign(n) == IF n < 0 THEN -1 ELSE 1

RECURSIVE BitLen(_)
BitLen(n) == IF n = 0 THEN 0 ELSE 1 + BitLen(n \div 2)

\* The f32 nearest to sign * (n + frac) * 2^e, where 0 <= n < 2^30 and
\* 0 < frac < 1 if sticky, frac = 0 otherwise; ties go to the even mantissa.
F32Round(sign, n, e, sticky) ==
    IF n = 0 THEN F32Zero
    ELSE LET len == BitLen(n) IN
         IF len <= 24
         THEN [m |-> sign * n * 2^(24 - len), e |-> e - (24 - len)]
         ELSE LET s    == len - 24
                  q    == n \div 2^s
                  r    == n % 2^s
                  half == 2^(s - 1)
                  up   == \/ r > half
                          \/ r = half /\ sticky
                          \/ r = half /\ ~sticky /\ q % 2 = 1
                  q1   == IF up THEN q + 1 ELSE q
              IN IF q1 = 2^24
                 THEN [m |-> sign * 2^23, e |-> e + s + 1]
                 ELSE [m |-> sign * q1, e |-> e + s]

\* `n as f32` for a small non-negative integer (exact)
F32FromInt(n) == F32Round(1, n, 0, FALSE)

F32One == F32FromInt(1)

\* `a as f32 / b as f32` for small integers a >= 0, b > 0: both conversions
\* are exact, the quotient is rounded once.
F32DivInt(a, b) ==
    IF a = 0 THEN F32Zero
    ELSE LET k   == 25 + BitLen(b) - BitLen(a)
             num == a * 2^k
             q   == num \div b
             r   == num % b
         IN F32Round(1, 2 * q + (IF 2 * r >= b THEN 1 ELSE 0), -k - 1,
                     (2 * r # b) /\ (r # 0))

\* x * y: the 48-bit product of the mantissas is formed in 12-bit limbs
F32Mul(x, y) ==
    IF x.m = 0 \/ y.m = 0 THEN F32Zero
    ELSE LET a     == Abs(x.m)
             b     == Abs(y.m)
             ah    == a \div 4096
             al    == a % 4096
             bh    == b \div 4096
             bl    == b % 4096
             cross == ah * bl + al * bh
             losum == al * bl + (cross % 4096) * 4096
             lo    == losum % 16777216
             hi    == ah * bh + cross \div 4096 + losum \div 16777216
         IN F32Round(Sign(x.m) * Sign(y.m), hi * 4 + lo \div 4194304,
                     x.e + y.e + 22, lo % 4194304 # 0)

F32Neg(x) == [m |-> -x.m, e |-> x.e]

\* x + y for x, y both non-zero and x.e >= y.e: three guard bits and a
\* sticky bit
F32AddOrdered(x, y) ==
    LET d     == IF x.e - y.e > 28 THEN 28 ELSE x.e - y.e
        ma    == Abs(x.m) * 8
        mb    == (Abs(y.m) * 8) \div 2^d
        st    == (Abs(y.m) * 8) % 2^d # 0
        diff  == ma - mb - (IF st THEN 1 ELSE 0)
    IN IF Sign(x.m) = Sign(y.m)
       THEN F32Round(Sign(x.m), ma + mb, x.e - 3, st)
       ELSE IF diff >= 0
            THEN F32Round(Sign(x.m), diff, x.e - 3, st)
            ELSE F32Round(Sign(y.m), -diff, x.e - 3, FALSE)

F32Add(x, y) ==
    IF y.m = 0 THEN x
    ELSE IF x.m = 0 THEN y
    ELSE IF x.e >= y.e THEN F32AddOrdered(x, y)
    ELSE F32AddOrdered(y, x)

F32Sub(x, y) == F32Add(x, F32Neg(y))

\* x >= y
F32Ge(x, y) == F32Sub(x, y).m >= 0


(***************************************************************************)
(* The data layout: the macro's parameters.                                *)
(***************************************************************************)
\* enum Color of the instantiation
Colors == {"Red", "Green"}

\* the class enum of the instantiation
Classes == {"Apple", "Lime"}

\* values of the number field
Sizes == 1..MaxSize

\* the Field enum, in declaration order: enum fields, then number fields
Layouts == {<<"color">>, <<"color", "size">>}

\* struct DataPoint: one value per field, and the class
DataPoint(layout) ==
    IF Len(layout) = 1
    THEN [color : Colors, class : Classes]
    ELSE [color : Colors, size : Sizes, class : Classes]

\* Option: None is <<>>, Some(x) is <<x>>
None == <<>>

Some(x) == <<x>>

\* every order in which the elements of a hash set or the keys of a hash
\* map can be iterated
Orderings(S) ==
    {o \in [1..Cardinality(S) -> S] : \A i, j \in DOMAIN o : o[i] = o[j] => i = j}

(***************************************************************************)
(* The generated functions.                                                *)
(***************************************************************************)
\* check with > in place of >= for a number field
check_strict(q, val) ==
    IF q.field = "color" THEN q.val = val.color ELSE val.size > q.val

\* == for an enum field, >= for a number field
check(q, val) ==
    IF q.field = "color" THEN q.val = val.color ELSE val.size >= q.val

\* the Vec collected from the HashSet of questions: any order of the
\* distinct values of field t
unique_questions(data, t) ==
    Orderings({[field |-> t, val |-> data[i][t]] : i \in DOMAIN data})

\* count_point with or_insert(1)
count_point_from_one(map, point) ==
    [l \in DOMAIN map \cup {point.class} |->
        IF l = point.class
        THEN (IF l \in DOMAIN map THEN map[l] ELSE 1) + 1
        ELSE map[l]]

\* *map.entry(class).or_insert(0) += 1
count_point(map, point) ==
    [l \in DOMAIN map \cup {point.class} |->
        IF l = point.class
        THEN (IF l \in DOMAIN map THEN map[l] ELSE 0) + 1
        ELSE map[l]]

RECURSIVE class_counts_from(_, _, _)
class_counts_from(data, i, map) ==
    IF i > Len(data) THEN map
    ELSE class_counts_from(data, i + 1, count_point(map, data[i]))

\* class_counts with a loop that starts at the second point
class_counts_skip_first(data) == class_counts_from(data, 2, <<>>)

class_counts(data) == class_counts_from(data, 1, <<>>)

\* push_point without the else: every point is also pushed to false_points
push_point_no_else(q, point, acc) ==
    IF check(q, point)
    THEN <<Append(acc[1], point), Append(acc[2], point)>>
    ELSE <<acc[1], Append(acc[2], point)>>

\* the body of partition's loop: acc = <<true_points, false_points>>
push_point(q, point, acc) ==
    IF check(q, point)
    THEN <<Append(acc[1], point), acc[2]>>
    ELSE <<acc[1], Append(acc[2], point)>>

RECURSIVE partition_from(_, _, _, _)
partition_from(q, data, i, acc) ==
    IF i > Len(data) THEN acc
    ELSE partition_from(q, data, i + 1, push_point(q, data[i], acc))

\* (true_points, false_points)
partition(q, data) == partition_from(q, data, 1, <<<<>>, <<>>>>)

\* the body of gini's loop
gini_step(impurity, count, len) ==
    LET prop_of_label == F32DivInt(count, len)
    IN F32Sub(impurity, F32Mul(prop_of_label, prop_of_label))

RECURSIVE gini_from(_, _, _, _, _)
gini_from(counts, keys, len, i, impurity) ==
    IF i > Len(keys) THEN impurity
    ELSE gini_from(counts, keys, len, i + 1,
                   gini_step(impurity, counts[keys[i]], len))

\* the results gini can return: one per iteration order of counts.keys()
gini(data) ==
    LET counts == class_counts(data)
    IN {gini_from(counts, keys, Len(data), 1, F32One) :
            keys \in Orderings(DOMAIN counts)}

\* cur_uncertainty - p * gini(left) - (1 - p) * gini(right), for given
\* results of the two calls of gini
info_gain_of(p, gl, gr, cur_uncertainty) ==
    F32Sub(F32Sub(cur_uncertainty, F32Mul(p, gl)),
           F32Mul(F32Sub(F32One, p), gr))

\* the results info_gain can return
info_gain(left, right, cur_uncertainty) ==
    LET p == F32DivInt(Len(left), Len(left) + Len(right))
    IN {info_gain_of(p, gl, gr, cur_uncertainty) :
            gl \in gini(left), gr \in gini(right)}

\* skipped with && in place of ||
skipped_both(true_data, false_data) == Len(true_data) = 0 /\ Len(false_data) = 0

\* if true_data.len() == 0 || false_data.len() == 0 { continue; }
skipped(true_data, false_data) == Len(true_data) = 0 \/ Len(false_data) = 0

\* improves with > in place of >=
improves_strict(gain, best_gain) == F32Sub(gain, best_gain).m > 0

\* if gain >= best_gain
improves(gain, best_gain) == F32Ge(gain, best_gain)

\* is_zero with the test inverted
is_nonzero(gain) == gain.m # 0

\* if gain == 0.0
is_zero(gain) == gain.m = 0

Leaf(counts) == [kind |-> "Leaf", counts |-> counts]

new_leaf(data) == Leaf(class_counts(data))

new_decision_node(q, true_branch, false_branch) ==
    [kind |-> "Decision", question |-> q,
     true_branch |-> true_branch, false_branch |-> false_branch]

\* Option::unwrap on Some(x)
unwrap(o) == o[1]

\* the outcome of a panic (Option::unwrap on None): the process unwinds and
\* no Node is returned
Panicked == [kind |-> "Panicked"]

(***************************************************************************)
(* State.                                                                  *)
(***************************************************************************)
VARIABLES
    layout,              \* the fields of the instantiation, in Field order
    training,            \* the data main passes to build_tree
    stack,               \* the active invocations of build_tree, innermost last
    ret,                 \* the Node the last finished invocation returned
    best_gain,           \* find_best_split: best_gain
    best_question,       \* find_best_split: best_question
    current_uncertainty, \* find_best_split: current_uncertainty
    fi,                  \* find_best_split: fields whose questions were fetched
    questions,           \* find_best_split: questions of the current field
                         \* not yet evaluated
    last,                \* find_best_split: the locals of the last iteration
                         \* (question, true_data, false_data, gain)
    point,               \* classify: point
    node,                \* classify: the node the traversal is at
    result               \* classify: the returned HashMap

split_vars == <<best_gain, best_question, current_uncertainty, fi, questions, last>>

classify_vars == <<point, node, result>>

vars == <<layout, training, stack, ret, best_gain, best_question,
          current_uncertainty, fi, questions, last, point, node, result>>

\* an invocation of build_tree(data) about to run
Frame(data) ==
    [data |-> data, pc |-> "start", question |-> None,
     true_rows |-> <<>>, false_rows |-> <<>>, true_branch |-> None]

Top == stack[Len(stack)]

Pop == SubSeq(stack, 1, Len(stack) - 1)

SetTop(frame) == [stack EXCEPT ![Len(stack)] = frame]

\* training sets of at most MaxRecords points
TrainingSets(l) ==
    UNION {[1..n -> DataPoint(l)] : n \in 0..MaxRecords}

SplitIdle ==
    /\ best_gain' = F32Zero
    /\ best_question' = None
    /\ current_uncertainty' = F32Zero
    /\ fi' = 0
    /\ questions' = <<>>
    /\ last' = None

Init ==
    /\ layout \in Layouts
    /\ training \in TrainingSets(layout)
    /\ stack = <<Frame(training)>>
    /\ ret = None
    /\ best_gain = F32Zero
    /\ best_question = None
    /\ current_uncertainty = F32Zero
    /\ fi = 0
    /\ questions = <<>>
    /\ last = None
    /\ point = None
    /\ node = None
    /\ result = None

(***************************************************************************)
(* build_tree and find_best_split.                                         *)
(***************************************************************************)
\* build_tree calls find_best_split, which initialises its locals
CallFindBestSplit ==
    /\ stack # <<>>
    /\ Top.pc = "start"
    /\ \E cu \in gini(Top.data) :
          /\ best_gain' = F32Zero
          /\ best_question' = None
          /\ current_uncertainty' = cu
    /\ fi' = 0
    /\ questions' = <<>>
    /\ last' = None
    /\ stack' = SetTop([Top EXCEPT !.pc = "split"])
    /\ UNCHANGED <<layout, training, ret, classify_vars>>

\* the outer loop: the next field's unique_questions
NextField ==
    /\ stack # <<>>
    /\ Top.pc = "split"
    /\ questions = <<>>
    /\ fi < Len(layout)
    /\ \E qs \in unique_questions(Top.data, layout[fi + 1]) :
          questions' = qs
    /\ fi' = fi + 1
    /\ UNCHANGED <<layout, training, stack, ret, best_gain, best_question,
                   current_uncertainty, last, classify_vars>>

\* the inner loop's body, for the next question
EvalQuestion ==
    /\ stack # <<>>
    /\ Top.pc = "split"
    /\ questions # <<>>
    /\ LET question == Head(questions)
           parts    == partition(question, Top.data)
       IN IF skipped(parts[1], parts[2])
          THEN /\ last' = Some([question |-> question, true_data |-> parts[1],
                                false_data |-> parts[2], gain |-> None])
               /\ UNCHANGED <<best_gain, best_question>>
          ELSE \E gain \in info_gain(parts[1], parts[2], current_uncertainty) :
                 /\ last' = Some([question |-> question, true_data |-> parts[1],
                                  false_data |-> parts[2], gain |-> Some(gain)])
                 /\ IF improves(gain, best_gain)
                    THEN /\ best_gain' = gain
                         /\ best_question' = Some(question)
                    ELSE UNCHANGED <<best_gain, best_question>>
    /\ questions' = Tail(questions)
    /\ UNCHANGED <<layout, training, stack, ret, current_uncertainty, fi,
                   classify_vars>>

\* find_best_split has returned (best_gain, best_question)
SplitReturned ==
    /\ stack # <<>>
    /\ Top.pc = "split"
    /\ questions = <<>>
    /\ fi = Len(layout)

\* gain == 0.0: return Node::new_leaf(&data)
BuildLeaf ==
    /\ SplitReturned
    /\ is_zero(best_gain)
    /\ ret' = Some(new_leaf(Top.data))
    /\ stack' = Pop
    /\ SplitIdle
    /\ UNCHANGED <<layout, training, classify_vars>>

\* otherwise: unwrap the question (a panic if there is none), partition,
\* and build the true branch
BuildSplit ==
    /\ SplitReturned
    /\ ~is_zero(best_gain)
    /\ IF best_question = None
       THEN /\ stack' = <<>>
            /\ ret' = Some(Panicked)
       ELSE /\ LET question == unwrap(best_question)
                   parts    == partition(question, Top.data)
               IN stack' = Append(SetTop([Top EXCEPT !.pc = "true",
                                                     !.question = Some(question),
                                                     !.true_rows = parts[1],
                                                     !.false_rows = parts[2]]),
                                  Frame(parts[1]))
            /\ UNCHANGED ret
    /\ SplitIdle
    /\ UNCHANGED <<layout, training, classify_vars>>

\* the true branch is built: build the false branch
BuildFalseBranch ==
    /\ stack # <<>>
    /\ Top.pc = "true"
    /\ ret # None
    /\ stack' = Append(SetTop([Top EXCEPT !.pc = "false", !.true_branch = ret]),
                       Frame(Top.false_rows))
    /\ ret' = None
    /\ UNCHANGED <<layout, training, split_vars, classify_vars>>

\* both branches are built: return the decision node
BuildDecision ==
    /\ stack # <<>>
    /\ Top.pc = "false"
    /\ ret # None
    /\ ret' = Some(new_decision_node(unwrap(Top.question),
                                     unwrap(Top.true_branch), unwrap(ret)))
    /\ stack' = Pop
    /\ UNCHANGED <<layout, training, split_vars, classify_vars>>

\* build_tree has ended: it returned to main, or it panicked
Ended == stack = <<>> /\ ret # None

\* build_tree has returned a Node to main
Built == Ended /\ unwrap(ret).kind # "Panicked"

(***************************************************************************)
(* classify.                                                               *)
(***************************************************************************)
\* classify(&p, tree) for a point of the layout
ClassifyCall ==
    /\ Built
    /\ node = None
    /\ \E p \in DataPoint(layout) :
          point' = Some(p)
    /\ node' = ret
    /\ result' = None
    /\ UNCHANGED <<layout, training, stack, ret, split_vars>>

\* Node::Leaf(x) => x
ClassifyLeaf ==
    /\ node # None
    /\ unwrap(node).kind = "Leaf"
    /\ result' = Some(unwrap(node).counts)
    /\ node' = None
    /\ UNCHANGED <<layout, training, stack, ret, split_vars, point>>

\* ClassifyDecision with the two branches exchanged
ClassifyDecisionSwapped ==
    /\ node # None
    /\ unwrap(node).kind = "Decision"
    /\ node' = IF check(unwrap(node).question, unwrap(point))
               THEN Some(unwrap(node).false_branch)
               ELSE Some(unwrap(node).true_branch)
    /\ UNCHANGED <<layout, training, stack, ret, split_vars, point, result>>

\* Node::Decision: recurse into the branch the question selects
ClassifyDecision ==
    /\ node # None
    /\ unwrap(node).kind = "Decision"
    /\ node' = IF check(unwrap(node).question, unwrap(point))
               THEN Some(unwrap(node).true_branch)
               ELSE Some(unwrap(node).false_branch)
    /\ UNCHANGED <<layout, training, stack, ret, split_vars, point, result>>

BuildNext ==
    \/ CallFindBestSplit
    \/ NextField
    \/ EvalQuestion
    \/ BuildLeaf
    \/ BuildSplit
    \/ BuildFalseBranch
    \/ BuildDecision

ClassifyNext ==
    \/ ClassifyCall
    \/ ClassifyLeaf
    \/ ClassifyDecision

Next == BuildNext \/ ClassifyNext

Spec == Init /\ [][Next]_vars

(***************************************************************************)
(* Vocabulary of the properties, stated without the generated functions.   *)
(***************************************************************************)
\* the predicate of question q: == for an Equality feature, record value >=
\* threshold for an Ordered feature
Matches(q, r) ==
    \/ q.field = "color" /\ r.color = q.val
    \/ q.field = "size" /\ r.size >= q.val

Matching(q, data) == SelectSeq(data, LAMBDA r : Matches(q, r))

NonMatching(q, data) == SelectSeq(data, LAMBDA r : ~Matches(q, r))

\* q splits data into two non-empty sides
TwoSided(q, data) == Matching(q, data) # <<>> /\ NonMatching(q, data) # <<>>

\* the same question (fields compared first: the values of different fields
\* are of different types)
QEq(a, b) == a.field = b.field /\ a.val = b.val

\* the candidate questions of one field, and of all fields
FieldCandidates(data, t) == {[field |-> t, val |-> data[i][t]] : i \in DOMAIN data}

\* quantification over the candidates of all fields (fields one by one:
\* the questions of different fields do not mix in one set)
AllCandidates(data, P(_)) ==
    \A k \in DOMAIN layout : \A q \in FieldCandidates(data, layout[k]) : P(q)

SomeCandidate(data, P(_)) ==
    \E k \in DOMAIN layout : \E q \in FieldCandidates(data, layout[k]) : P(q)

\* the information gains the candidate q can evaluate to
Gains(q, data, cur) == info_gain(Matching(q, data), NonMatching(q, data), cur)

LabelCount(data, l) == Cardinality({i \in DOMAIN data : data[i].class = l})

Labels(data) == {data[i].class : i \in DOMAIN data}

\* the label distribution of a record set
Distribution(data) == [l \in Labels(data) |-> LabelCount(data, l)]

IsLeafOf(n, data) == n.kind = "Leaf" /\ n.counts = Distribution(data)

IsDecisionOn(n, q) == n.kind = "Decision" /\ QEq(n.question, q)

Positive(x) == x.m > 0

Negative(x) == x.m < 0

\* find_best_split is running for the invocation on top of the stack
InSplit == stack # <<>> /\ Top.pc = "split"

\* a step of find_best_split's inner loop
EvalStep == InSplit /\ questions # <<>> /\ questions' = Tail(questions)

(***************************************************************************)
(* C1: the end-to-end scenario.                                            *)
(***************************************************************************)
RedApple == [color |-> "Red", class |-> "Apple"]

GreenLime == [color |-> "Green", class |-> "Lime"]

C1_Training == <<RedApple, GreenLime, RedApple>>

C1_Scenario == layout = <<"color">> /\ training = C1_Training

IsRed == [field |-> "color", val |-> "Red"]

IsGreen == [field |-> "color", val |-> "Green"]

C1_RedTree(n) ==
    /\ IsDecisionOn(n, IsRed)
    /\ IsLeafOf(n.true_branch, <<RedApple, RedApple>>)
    /\ IsLeafOf(n.false_branch, <<GreenLime>>)

C1_GreenTree(n) ==
    /\ IsDecisionOn(n, IsGreen)
    /\ IsLeafOf(n.true_branch, <<GreenLime>>)
    /\ IsLeafOf(n.false_branch, <<RedApple, RedApple>>)

C1_RedClassified ==
    (result # None /\ unwrap(point).color = "Red")
        => unwrap(result) = Distribution(<<RedApple, RedApple>>)

\* C1 as stated: on the training set [Red/Apple, Green/Lime, Red/Apple] with
\* the single field color, whatever the order of the candidate questions,
\* build_tree returns Decision(color == Red, Leaf {Apple: 2}, Leaf {Lime: 1}),
\* and a Red record is classified {Apple: 2}.
C1_Original ==
    C1_Scenario =>
        /\ Ended => (Built /\ C1_RedTree(unwrap(ret)))
        /\ C1_RedClassified

\* C1, amended: both candidates have the same gain, and the root's question
\* is the candidate enumerated last: the tree is Decision(color == Red,
\* Leaf {Apple: 2}, Leaf {Lime: 1}) when color == Red is enumerated last and
\* Decision(color == Green, Leaf {Lime: 1}, Leaf {Apple: 2}) when color ==
\* Green is; a Red record is classified {Apple: 2} on either tree.
C1_EndToEnd ==
    C1_Scenario =>
        /\ (Len(stack) = 1 /\ SplitReturned)
              => (/\ last # None
                  /\ best_question # None
                  /\ QEq(unwrap(best_question), unwrap(last).question))
        /\ (Len(stack) >= 1 /\ stack[1].question # None)
              => (/\ last # None => Len(stack) > 1
                  /\ unwrap(stack[1].question) \in {IsRed, IsGreen})
        /\ Ended
              => (/\ Built
                  /\ \/ C1_RedTree(unwrap(ret))
                     \/ C1_GreenTree(unwrap(ret)))
        /\ C1_RedClassified

\* the scenario has run with color == Green enumerated last, and a Red
\* record has been classified on the resulting tree
C1_Witness ==
    /\ C1_Scenario
    /\ Built
    /\ C1_GreenTree(unwrap(ret))
    /\ result # None
    /\ unwrap(point).color = "Red"

(***************************************************************************)
(* C7: ties in find_best_split.                                            *)
(***************************************************************************)
\* C7 as stated: the held best question is replaced only by a candidate of
\* strictly greater gain (among candidates of equal gain the first evaluated
\* is retained).
C7_Original ==
    [][(/\ EvalStep
        /\ best_question # None
        /\ ~QEq(unwrap(best_question), unwrap(best_question')))
          => Positive(F32Sub(best_gain', best_gain))]_vars

\* C7, amended: a candidate with two non-empty sides replaces the held best
\* question whenever its gain is greater than or equal to the held best gain,
\* and nothing else changes the held best: among candidates of equal maximal
\* gain the one evaluated last is retained.
C7_LastSeenWins ==
    [][EvalStep =>
        LET c == unwrap(last')
        IN /\ QEq(c.question, Head(questions))
           /\ (c.gain = None) = ~TwoSided(c.question, Top.data)
           /\ IF c.gain # None /\ ~Negative(F32Sub(unwrap(c.gain), best_gain))
              THEN /\ best_gain' = unwrap(c.gain)
                   /\ best_question' # None
                   /\ QEq(unwrap(best_question'), c.question)
              ELSE UNCHANGED <<best_gain, best_question>>]_vars

\* a candidate has just replaced an earlier-evaluated candidate of the same
\* gain
C7_Witness ==
    /\ InSplit
    /\ last # None
    /\ unwrap(last).gain # None
    /\ best_question # None
    /\ QEq(unwrap(best_question), unwrap(last).question)
    /\ Positive(best_gain)
    /\ \E k \in 1..fi : \E q \in FieldCandidates(Top.data, layout[k]) :
          /\ ~QEq(q, unwrap(last).question)
          /\ k < fi \/ \A j \in DOMAIN questions : ~QEq(questions[j], q)
          /\ TwoSided(q, Top.data)
          /\ best_gain \in Gains(q, Top.data, current_uncertainty)

(***************************************************************************)
(* C8: no candidate of positive gain.                                      *)
(***************************************************************************)
\* no candidate with two non-empty sides can evaluate to a gain above 0
NoPositiveCandidate ==
    AllCandidates(Top.data, LAMBDA q :
        TwoSided(q, Top.data)
            => \A g \in Gains(q, Top.data, current_uncertainty) : ~Positive(g))

\* C8 as stated: if no candidate with two non-empty sides has gain > 0,
\* find_best_split returns (0, None), also when some candidate has gain 0.
C8_Original ==
    (SplitReturned /\ NoPositiveCandidate)
        => (is_zero(best_gain) /\ best_question = None)

\* C8, amended: if no candidate with two non-empty sides has gain > 0,
\* find_best_split returns gain 0; the question returned is None only if no
\* such candidate evaluated to exactly 0, and otherwise it is a candidate
\* with two non-empty sides whose gain is 0.
C8_NoPositiveGain ==
    (SplitReturned /\ NoPositiveCandidate)
        => /\ best_gain = F32Zero
           /\ best_question = None
                => AllCandidates(Top.data, LAMBDA q :
                      TwoSided(q, Top.data)
                         => \E g \in Gains(q, Top.data, current_uncertainty) :
                               Negative(g))
           /\ best_question # None
                => /\ SomeCandidate(Top.data, LAMBDA q :
                          QEq(q, unwrap(best_question)))
                   /\ TwoSided(unwrap(best_question), Top.data)
                   /\ F32Zero \in Gains(unwrap(best_question), Top.data,
                                        current_uncertainty)

\* find_best_split returns gain 0 with a question, on a record set whose
\* candidates all have gain 0
C8_Witness ==
    /\ SplitReturned
    /\ NoPositiveCandidate
    /\ best_question # None
    /\ SomeCandidate(Top.data, LAMBDA q : TwoSided(q, Top.data))

(***************************************************************************)
(* C2: the empty training set.                                             *)
(***************************************************************************)
IsEmptyLeaf(n) == n.kind = "Leaf" /\ DOMAIN n.counts = {}

\* gini has been evaluated on the data of invocation f (find_best_split
\* evaluates it first)
GiniEvaluated(f) == f.pc # "start"

\* C2 as stated: build_tree on an empty record set ends in an explicit
\* error: it never returns a Leaf with an empty distribution, and gini is
\* never evaluated on an empty record set.
C2_EmptyTrainingSetIsError ==
    /\ \A i \in DOMAIN stack : GiniEvaluated(stack[i]) => stack[i].data # <<>>
    /\ (training = <<>> /\ Ended) => ~IsEmptyLeaf(unwrap(ret))

(***************************************************************************)
(* C3: the recursion shrinks.                                              *)
(***************************************************************************)
\* every invocation below the root works on a non-empty record set strictly
\* smaller than its caller's, which is one side of the caller's split, and
\* both sides of every split taken are non-empty
C3_Shrinks ==
    \A i \in DOMAIN stack :
        /\ i > 1 => /\ stack[i].data # <<>>
                    /\ Len(stack[i].data) < Len(stack[i - 1].data)
                    /\ stack[i].data = IF stack[i - 1].pc = "true"
                                       THEN stack[i - 1].true_rows
                                       ELSE stack[i - 1].false_rows
        /\ stack[i].question # None
              => /\ stack[i].true_rows # <<>>
                 /\ stack[i].false_rows # <<>>
                 /\ Len(stack[i].true_rows) + Len(stack[i].false_rows)
                        = Len(stack[i].data)

\* an upper bound on the steps of one invocation on n records, without the
\* invocations it makes: the call of find_best_split, one fetch per field, at
\* most n questions per field, the leaf or the split, the false branch, the
\* decision node
OwnSteps(n) == 4 + Len(layout) + Len(layout) * n

\* an upper bound on the steps of an invocation on n records with all the
\* invocations below it (at most 2n - 1 of them)
TreeSteps(n) == (IF n = 0 THEN 1 ELSE 2 * n - 1) * OwnSteps(n)

\* the steps invocation i of the stack can still take, with the invocations
\* it has not made yet
StepsLeft(i) ==
    LET f == stack[i]
        n == Len(f.data)
    IN CASE f.pc = "start" -> TreeSteps(n)
         [] f.pc = "split" ->
              (IF i = Len(stack)
               THEN (Len(layout) - fi) * (1 + n) + Len(questions)
               ELSE 0)
              + 3 + (IF n = 0 THEN 0 ELSE (2 * n - 2) * OwnSteps(n))
         [] f.pc = "true" -> 2 + TreeSteps(Len(f.false_rows))
         [] f.pc = "false" -> 1

RECURSIVE SumStepsLeft(_)
SumStepsLeft(i) == IF i = 0 THEN 0 ELSE StepsLeft(i) + SumStepsLeft(i - 1)

\* the number of steps build_tree can still take
Measure == SumStepsLeft(Len(stack))

\* build_tree can take a step: the invocation on top of the stack is about
\* to call find_best_split, is in it, or is handed the Node its callee
\* returned
CanStep ==
    /\ stack # <<>>
    /\ Top.pc \in {"start", "split", "true", "false"}
    /\ Top.pc \in {"true", "false"} => ret # None

\* what holds of every state of build_tree
C3_Progress ==
    /\ C3_Shrinks
    /\ Measure >= 0
    /\ Ended \/ CanStep
    /\ (training # <<>> /\ Ended) => Built

\* C3: for every non-empty record set build_tree terminates (every step of
\* it decreases a natural number, it can step until it has ended, and it
\* ends by returning a Node), and every recursive call is made on a
\* non-empty record set strictly smaller than the caller's (both sides of a
\* split taken are non-empty).
C3_Termination ==
    [][/\ C3_Progress
       /\ C3_Progress'
       /\ ~Ended => Measure' < Measure]_vars

\* a recursive call made by a recursive call
C3_Witness ==
    /\ Len(stack) = 3
    /\ stack[3].pc = "start"
    /\ stack[2].pc = "false"

(***************************************************************************)
(* C4: the purity floor.                                                   *)
(***************************************************************************)
Pure(data) == data # <<>> /\ \A i, j \in DOMAIN data : data[i].class = data[j].class

\* C4: for a non-empty record set whose records all carry one label, gini
\* is 0 and build_tree returns a single Leaf mapping the label to the number
\* of records, whatever the feature values.
C4_PurityFloor ==
    Pure(training) =>
        /\ gini(training) = {F32Zero}
        /\ InSplit => current_uncertainty = F32Zero
        /\ Len(stack) <= 1
        /\ Ended => /\ unwrap(ret).kind = "Leaf"
                    /\ DOMAIN unwrap(ret).counts = {training[1].class}
                    /\ unwrap(ret).counts[training[1].class] = Len(training)

\* a single Leaf was returned for a pure record set whose records differ in
\* a feature
C4_Witness ==
    /\ Pure(training)
    /\ Built
    /\ \E i, j \in DOMAIN training : training[i].color # training[j].color

(***************************************************************************)
(* C5: no signal.                                                          *)
(***************************************************************************)
NoSignal(data) ==
    /\ \A i, j \in DOMAIN data : \A k \in DOMAIN layout :
          data[i][layout[k]] = data[j][layout[k]]
    /\ \E i, j \in DOMAIN data : data[i].class # data[j].class

\* C5: when every feature has the same value in all records and the labels
\* differ, find_best_split returns gain 0 and build_tree returns a single
\* Leaf with the label counts of the whole record set, without recursing or
\* panicking.
C5_NoSignal ==
    NoSignal(training) =>
        /\ SplitReturned => best_gain = F32Zero
        /\ Len(stack) <= 1
        /\ Ended => (Built /\ IsLeafOf(unwrap(ret), training))

\* a single mixed Leaf was returned for a record set with two fields
C5_Witness ==
    /\ NoSignal(training)
    /\ Len(layout) = 2
    /\ Built
    /\ unwrap(ret).kind = "Leaf"
    /\ Cardinality(DOMAIN unwrap(ret).counts) = 2

(***************************************************************************)
(* C6: classification is total.                                            *)
(***************************************************************************)
NonEmptyCounts(counts) == \E l \in DOMAIN counts : counts[l] >= 1

RECURSIVE LeavesNonEmpty(_)
\* every Leaf of the tree n has a label of count >= 1
LeavesNonEmpty(n) ==
    IF n.kind = "Leaf" THEN NonEmptyCounts(n.counts)
    ELSE LeavesNonEmpty(n.true_branch) /\ LeavesNonEmpty(n.false_branch)

RECURSIVE IsSubtree(_, _)
\* m is n or a node below n
IsSubtree(m, n) ==
    \/ m = n
    \/ /\ n.kind = "Decision"
       /\ IsSubtree(m, n.true_branch) \/ IsSubtree(m, n.false_branch)

\* C6: on a tree built from a non-empty record set, classify of any record
\* of the layout walks down the tree to a Leaf and returns a distribution
\* with a label of count >= 1; every Leaf was built from at least one record.
C6_ClassifyTotal ==
    training # <<>> =>
        /\ Ended => /\ Built
                    /\ LeavesNonEmpty(unwrap(ret))
        /\ node # None => /\ Built
                          /\ unwrap(node).kind \in {"Leaf", "Decision"}
                          /\ IsSubtree(unwrap(node), unwrap(ret))
        /\ result # None => NonEmptyCounts(unwrap(result))

\* a record whose color never occurs in the training set was classified on
\* a tree with a Decision node
C6_Witness ==
    /\ training # <<>>
    /\ Built
    /\ unwrap(ret).kind = "Decision"
    /\ result # None
    /\ \A i \in DOMAIN training : training[i].color # unwrap(point).color

(***************************************************************************)
(* C9: partition.                                                          *)
(***************************************************************************)
\* (t, f) is the pair of the subsequences of data that match and do not
\* match q
PartitionOf(q, data, t, f) ==
    /\ t = Matching(q, data)
    /\ f = NonMatching(q, data)
    /\ Len(t) + Len(f) = Len(data)

\* C9: partition(q, records) returns the subsequence of the records that
\* satisfy q and the subsequence of those that do not, each in the original
\* order; the lengths sum to len(records).
C9_Partition ==
    /\ (InSplit /\ last # None)
          => PartitionOf(unwrap(last).question, Top.data,
                         unwrap(last).true_data, unwrap(last).false_data)
    /\ \A i \in DOMAIN stack :
          stack[i].question # None
             => PartitionOf(unwrap(stack[i].question), stack[i].data,
                            stack[i].true_rows, stack[i].false_rows)

\* a threshold question has split three records, the second of which does
\* not match while the first and the third do
C9_Witness ==
    /\ InSplit
    /\ last # None
    /\ unwrap(last).question.field = "size"
    /\ Len(Top.data) = 3
    /\ Len(unwrap(last).true_data) = 2
    /\ Len(unwrap(last).false_data) = 1
    /\ ~Matches(unwrap(last).question, Top.data[2])

(***************************************************************************)
(* C10: every training record is counted in the Leaf it is routed to.      *)
(***************************************************************************)
RECURSIVE Route(_, _, _)
\* the records of data that follow p down the tree n
Route(n, data, p) ==
    IF n.kind = "Leaf" THEN data
    ELSE IF Matches(n.question, p)
         THEN Route(n.true_branch, Matching(n.question, data), p)
         ELSE Route(n.false_branch, NonMatching(n.question, data), p)

RECURSIVE LeafSum(_, _)
\* the count of label l summed over the Leaves of n
LeafSum(n, l) ==
    IF n.kind = "Leaf"
    THEN (IF l \in DOMAIN n.counts THEN n.counts[l] ELSE 0)
    ELSE LeafSum(n.true_branch, l) + LeafSum(n.false_branch, l)

\* C10: classify of a training record returns the distribution of the Leaf
\* built from the training records routed like it, which counts its own
\* label; summed over the Leaves, the counts are those of the training set.
C10_TrainingRecords ==
    (training # <<>> /\ Built) =>
        /\ \A l \in Classes : LeafSum(unwrap(ret), l) = LabelCount(training, l)
        /\ (result # None /\ \E i \in DOMAIN training : training[i] = unwrap(point))
              => LET sub == Route(unwrap(ret), training, unwrap(point))
                 IN /\ \E i \in DOMAIN sub : sub[i] = unwrap(point)
                    /\ unwrap(result) = Distribution(sub)
                    /\ unwrap(point).class \in DOMAIN unwrap(result)
                    /\ unwrap(result)[unwrap(point).class] >= 1

\* a training record was classified on a tree of depth two and reached a
\* Leaf under the false branch
C10_Witness ==
    /\ Built
    /\ unwrap(ret).kind = "Decision"
    /\ unwrap(ret).false_branch.kind = "Decision"
    /\ result # None
    /\ \E i \in DOMAIN training : training[i] = unwrap(point)
    /\ ~Matches(unwrap(ret).question, unwrap(point))

=============================================================================
